---- MODULE Spec2Model ----
(***************************************************************************)
(* Shape-level model of src/unet.py: the 3D U-Net layer graph, its         *)
(* center-cropped skip connections and its training / validation / test    *)
(* hooks.  A tensor is modelled by its shape <<N, C, D, H, W>>; a layer by *)
(* its declared widths, kernel and stride; a raised exception by a result  *)
(* whose err field is not "".                                              *)
(***************************************************************************)
EXTENDS Integers, Sequences, FiniteSets, TLC

\* ------------------------------------------------------------------ bounds
MaxChannels == 2      \* in_channels, out_channels and input channels in 1..MaxChannels
MaxBatch == 2         \* batch sizes 1..MaxBatch
LowSize == 84         \* one input size whose decoder runs out of voxels
MinSize == 91         \* forward inputs: LowSize and MinSize..MaxSize per axis
MaxSize == 100
MaxCropSize == 4      \* center_crop called directly: sizes 1..MaxCropSize
MaxBlockSize == 6     \* create_double_conv blocks applied to sizes MinBlockSize..MaxBlockSize
MinBlockSize == 4
MaxBlockChannels == 2 \* channels of directly created blocks in 1..MaxBlockChannels
MaxOutputs == 2       \* length of the outputs list given to validation_end / test_end

\* ------------------------------------------------------------------ tensors
NoShape == <<>>
Raise(e) == [shape |-> NoShape, err |-> e]
Ok(s) == [shape |-> s, err |-> ""]
SpatialAxes == 3..5
Spatial(s) == <<s[3], s[4], s[5]>>

\* nn.Module objects are constructed in training mode
DefaultTraining == TRUE

\* ------------------------------------------------------------------ layers
Conv3d(cin, cout, k) == [kind |-> "Conv3d", cin |-> cin, cout |-> cout, k |-> k, stride |-> 1]
BatchNorm3d(c) == [kind |-> "BatchNorm3d", cin |-> c, cout |-> c, k |-> 0, stride |-> 0]
ReLU == [kind |-> "ReLU", cin |-> 0, cout |-> 0, k |-> 0, stride |-> 0]
MaxPool3d(k) == [kind |-> "MaxPool3d", cin |-> 0, cout |-> 0, k |-> k, stride |-> k]
ConvTranspose3d(cin, cout, k, st) == [kind |-> "ConvTranspose3d", cin |-> cin, cout |-> cout, k |-> k, stride |-> st]

\* output size of an unpadded convolution / pooling window along one axis
ConvOut(s, k, st) == ((s - k) \div st) + 1
\* output size of a transposed convolution without padding along one axis
ConvTransposeOut(s, k, st) == (s - 1) * st + k

\* one primitive layer applied to a tensor of shape s
ApplyLayer(l, s, training) ==
    CASE l.kind = "Conv3d" ->
           IF s[2] # l.cin THEN Raise("channels")
           ELSE IF \E a \in SpatialAxes : s[a] < l.k THEN Raise("size")
           ELSE Ok(<<s[1], l.cout, ConvOut(s[3], l.k, l.stride),
                     ConvOut(s[4], l.k, l.stride), ConvOut(s[5], l.k, l.stride)>>)
      [] l.kind = "BatchNorm3d" ->
           IF s[2] # l.cin THEN Raise("channels")
           ELSE IF training /\ s[1] * s[3] * s[4] * s[5] = 1 THEN Raise("one value per channel")
           ELSE Ok(s)
      [] l.kind = "ReLU" -> Ok(s)
      [] l.kind = "MaxPool3d" ->
           IF \E a \in SpatialAxes : s[a] < l.k THEN Raise("size")
           ELSE Ok(<<s[1], s[2], ConvOut(s[3], l.k, l.stride),
                     ConvOut(s[4], l.k, l.stride), ConvOut(s[5], l.k, l.stride)>>)
      [] l.kind = "ConvTranspose3d" ->
           IF s[2] # l.cin THEN Raise("channels")
           ELSE Ok(<<s[1], l.cout, ConvTransposeOut(s[3], l.k, l.stride),
                     ConvTransposeOut(s[4], l.k, l.stride),
                     ConvTransposeOut(s[5], l.k, l.stride)>>)

\* a module (nn.Sequential, or a single layer as a one-element sequence)
\* applied layer by layer; the first exception ends the call
RECURSIVE ApplyFrom(_, _, _, _)
ApplyFrom(m, i, s, training) ==
    IF i > Len(m) THEN Ok(s)
    ELSE LET r == ApplyLayer(m[i], s, training)
         IN IF r.err # "" THEN r ELSE ApplyFrom(m, i + 1, r.shape, training)
ApplyModule(m, s, training) == ApplyFrom(m, 1, s, training)

create_double_convMut(channels) ==
    << Conv3d(channels[1], channels[2], 3),
       BatchNorm3d(channels[2]),
       ReLU,
       Conv3d(channels[2], channels[3], 3),
       BatchNorm3d(channels[2]),
       ReLU >>
create_double_conv(channels) ==
    << Conv3d(channels[1], channels[2], 3),
       BatchNorm3d(channels[2]),
       ReLU,
       Conv3d(channels[2], channels[3], 3),
       BatchNorm3d(channels[3]),
       ReLU >>

LayerNames == {"encoder_conv1", "encoder_conv2", "encoder_conv3", "encoder_conv4",
               "decoder_conv1", "decoder_conv2", "decoder_conv3", "maxpool",
               "upconv1", "upconv2", "upconv3", "outconv"}

\* the attributes UNet.__init__ assigns
UNetLayersMut(inc, outc) ==
    [n \in LayerNames |->
       CASE n = "encoder_conv1" -> create_double_conv(<<inc, 32, 64>>)
         [] n = "encoder_conv2" -> create_double_conv(<<64, 64, 128>>)
         [] n = "encoder_conv3" -> create_double_conv(<<128, 128, 256>>)
         [] n = "encoder_conv4" -> create_double_conv(<<256, 256, 512>>)
         [] n = "decoder_conv1" -> create_double_conv(<<256 + 512, 256, 256>>)
         [] n = "decoder_conv2" -> create_double_conv(<<256, 128, 128>>)
         [] n = "decoder_conv3" -> create_double_conv(<<64 + 128, 64, 64>>)
         [] n = "maxpool" -> << MaxPool3d(2) >>
         [] n = "upconv1" -> << ConvTranspose3d(512, 512, 2, 2) >>
         [] n = "upconv2" -> << ConvTranspose3d(256, 256, 2, 2) >>
         [] n = "upconv3" -> << ConvTranspose3d(128, 128, 2, 2) >>
         [] n = "outconv" -> << Conv3d(64, outc, 1) >>]
UNetLayersKernel3(inc, outc) ==
    [n \in LayerNames |->
       CASE n = "encoder_conv1" -> create_double_conv(<<inc, 32, 64>>)
         [] n = "encoder_conv2" -> create_double_conv(<<64, 64, 128>>)
         [] n = "encoder_conv3" -> create_double_conv(<<128, 128, 256>>)
         [] n = "encoder_conv4" -> create_double_conv(<<256, 256, 512>>)
         [] n = "decoder_conv1" -> create_double_conv(<<256 + 512, 256, 256>>)
         [] n = "decoder_conv2" -> create_double_conv(<<128 + 256, 128, 128>>)
         [] n = "decoder_conv3" -> create_double_conv(<<64 + 128, 64, 64>>)
         [] n = "maxpool" -> << MaxPool3d(2) >>
         [] n = "upconv1" -> << ConvTranspose3d(512, 512, 2, 2) >>
         [] n = "upconv2" -> << ConvTranspose3d(256, 256, 2, 2) >>
         [] n = "upconv3" -> << ConvTranspose3d(128, 128, 2, 2) >>
         [] n = "outconv" -> << Conv3d(64, outc, 3) >>]

UNetLayers(inc, outc) ==
    [n \in LayerNames |->
       CASE n = "encoder_conv1" -> create_double_conv(<<inc, 32, 64>>)
         [] n = "encoder_conv2" -> create_double_conv(<<64, 64, 128>>)
         [] n = "encoder_conv3" -> create_double_conv(<<128, 128, 256>>)
         [] n = "encoder_conv4" -> create_double_conv(<<256, 256, 512>>)
         [] n = "decoder_conv1" -> create_double_conv(<<256 + 512, 256, 256>>)
         [] n = "decoder_conv2" -> create_double_conv(<<128 + 256, 128, 128>>)
         [] n = "decoder_conv3" -> create_double_conv(<<64 + 128, 64, 64>>)
         [] n = "maxpool" -> << MaxPool3d(2) >>
         [] n = "upconv1" -> << ConvTranspose3d(512, 512, 2, 2) >>
         [] n = "upconv2" -> << ConvTranspose3d(256, 256, 2, 2) >>
         [] n = "upconv3" -> << ConvTranspose3d(128, 128, 2, 2) >>
         [] n = "outconv" -> << Conv3d(64, outc, 1) >>]

\* ------------------------------------------------------------------ center_crop
\* F.pad along one axis of size e with lo elements added in front and hi
\* elements added behind (negative amounts remove elements): for every
\* position of the result, the position of x_encoder it is read from
\* (0-based), or -1 where the result is zero padding
PadAxis(e, lo, hi) ==
    [i \in 1..(e + lo + hi) |->
       LET j == (i - 1) - lo IN IF j >= 0 /\ j < e THEN j ELSE -1]

\* F.pad(t, pad) with a 6-tuple: pad[1], pad[2] belong to the LAST axis,
\* pad[3], pad[4] to the one before, pad[5], pad[6] to the first spatial axis;
\* batch and channel axes are not padded
F_pad(s, pad) ==
    [shape |-> <<s[1], s[2], s[3] + pad[5] + pad[6], s[4] + pad[3] + pad[4],
                 s[5] + pad[1] + pad[2]>>,
     src |-> << PadAxis(s[3], pad[5], pad[6]),
                PadAxis(s[4], pad[3], pad[4]),
                PadAxis(s[5], pad[1], pad[2]) >>]

center_cropMut(x_encoder, x) ==
    LET crop1 == (x_encoder[3] - x[3]) \div 2
        crop2 == (x_encoder[4] - x[4]) \div 2
        crop3 == (x_encoder[5] - x[5]) \div 2
    IN F_pad(x_encoder, <<-crop1, -crop1, -crop2, -crop2, -crop3, -crop3>>)
center_crop(x_encoder, x) ==
    LET crop1 == (x_encoder[3] - x[3]) \div 2
        crop2 == (x_encoder[4] - x[4]) \div 2
        crop3 == (x_encoder[5] - x[5]) \div 2
    IN F_pad(x_encoder, <<-crop3, -crop3, -crop2, -crop2, -crop1, -crop1>>)

\* torch.cat((a, b), dim=1): all sizes but the channel size must agree
torch_cat(a, b) ==
    IF a[1] # b[1] \/ Spatial(a) # Spatial(b) THEN Raise("cat")
    ELSE Ok(<<a[1], a[2] + b[2], a[3], a[4], a[5]>>)

\* ------------------------------------------------------------------ forward
TensorVars == {"x", "x1", "x2", "x3"}
Call(dst, layer, src) == [kind |-> "layer", dst |-> dst, layer |-> layer, src |-> src, enc |-> ""]
\* x = torch.cat((self.center_crop(enc, x), x), dim=1)
CropCat(enc) == [kind |-> "cat", dst |-> "x", layer |-> "", src |-> "x", enc |-> enc]

\* the statements of UNet.forward, in program order
ForwardBodyMut ==
    << Call("x1", "encoder_conv1", "x"),
       Call("x", "maxpool", "x1"),
       Call("x2", "encoder_conv2", "x"),
       Call("x", "maxpool", "x2"),
       Call("x3", "encoder_conv3", "x"),
       Call("x", "maxpool", "x3"),
       Call("x", "encoder_conv4", "x"),
       Call("x", "upconv1", "x"),
       CropCat("x3"),
       Call("x", "decoder_conv1", "x"),
       Call("x", "upconv2", "x"),
       CropCat("x1"),
       Call("x", "decoder_conv2", "x"),
       Call("x", "upconv3", "x"),
       CropCat("x2"),
       Call("x", "decoder_conv3", "x"),
       Call("x", "outconv", "x") >>
ForwardBody ==
    << Call("x1", "encoder_conv1", "x"),
       Call("x", "maxpool", "x1"),
       Call("x2", "encoder_conv2", "x"),
       Call("x", "maxpool", "x2"),
       Call("x3", "encoder_conv3", "x"),
       Call("x", "maxpool", "x3"),
       Call("x", "encoder_conv4", "x"),
       Call("x", "upconv1", "x"),
       CropCat("x3"),
       Call("x", "decoder_conv1", "x"),
       Call("x", "upconv2", "x"),
       CropCat("x2"),
       Call("x", "decoder_conv2", "x"),
       Call("x", "upconv3", "x"),
       CropCat("x1"),
       Call("x", "decoder_conv3", "x"),
       Call("x", "outconv", "x") >>

\* one statement of forward in the environment env (tensor variable -> shape):
\* the result, and the entry the statement leaves in the trace of the call
ExecStmt(L, env, st, training) ==
    IF st.kind = "layer"
    THEN LET r == ApplyModule(L[st.layer], env[st.src], training)
         IN [res |-> r,
             entry |-> [op |-> st.layer, in |-> env[st.src], out |-> r.shape,
                        first |-> "", second |-> "", crop |-> NoShape]]
    ELSE LET c == center_crop(env[st.enc], env[st.src])
             r == torch_cat(c.shape, env[st.src])
         IN [res |-> r,
             entry |-> [op |-> "cat", in |-> env[st.src], out |-> r.shape,
                        first |-> st.enc, second |-> st.src, crop |-> c.shape]]

RECURSIVE Exec(_, _, _, _, _)
Exec(L, env, i, tr, training) ==
    IF i > Len(ForwardBody) THEN [shape |-> env["x"], err |-> "", trace |-> tr]
    ELSE LET st == ForwardBody[i]
             e == ExecStmt(L, env, st, training)
         IN IF e.res.err # ""
            THEN [shape |-> NoShape, err |-> e.res.err, trace |-> Append(tr, e.entry)]
            ELSE Exec(L, [env EXCEPT ![st.dst] = e.res.shape], i + 1,
                      Append(tr, e.entry), training)

\* UNet.forward(x) on a module whose layers are L
forward(L, x, training) ==
    Exec(L, [v \in TensorVars |-> IF v = "x" THEN x ELSE NoShape], 1, <<>>, training)

\* ------------------------------------------------------------------ losses
\* nn.BCEWithLogitsLoss: the target must have the shape of the input
BCEWithLogitsLoss(input, target) ==
    IF target # input THEN Raise("target size")
    ELSE [shape |-> <<>>, err |-> ""]
\* F.cross_entropy with class-index targets: input (N, C, D, H, W),
\* target (N, D, H, W)
cross_entropy(input, target) ==
    IF target # <<input[1], input[3], input[4], input[5]>> THEN Raise("target size")
    ELSE [shape |-> <<>>, err |-> ""]

NoCall == [ncalls |-> 0, fn |-> "", input |-> NoShape, target |-> NoShape]

\* a hook that forwards once and applies one loss function: what it returns
\* (the keys of the mapping, {} when it raises), how often it ran forward,
\* and the loss call it made
StepResult(fwd, nforward, fn, lossres, target, key) ==
    IF fwd.err # ""
    THEN [keys |-> {}, err |-> fwd.err, nforward |-> nforward, fwd |-> fwd, loss |-> NoCall]
    ELSE [keys |-> IF lossres.err = "" THEN {key} ELSE {},
          err |-> lossres.err, nforward |-> nforward, fwd |-> fwd,
          loss |-> [ncalls |-> 1, fn |-> fn, input |-> fwd.shape, target |-> target]]

training_stepMut(L, batch, training) ==
    LET output == forward(L, batch.input, training)
        loss == BCEWithLogitsLoss(output.shape, batch.masks)
    IN StepResult(output, 1, "BCEWithLogitsLoss", loss, batch.masks, "val_loss")
training_step(L, batch, training) ==
    LET input == batch.input
        masks == batch.masks
        output == forward(L, input, training)
        loss == BCEWithLogitsLoss(output.shape, masks)
    IN StepResult(output, 1, "BCEWithLogitsLoss", loss, masks, "loss")

validation_step(L, batch, training) ==
    LET x == batch[1]
        y == batch[2]
        y_hat == forward(L, x, training)
    IN StepResult(y_hat, 1, "cross_entropy", cross_entropy(y_hat.shape, y), y, "val_loss")

test_step(L, batch, training) ==
    LET x == batch[1]
        y == batch[2]
        y_hat == forward(L, x, training)
    IN StepResult(y_hat, 1, "cross_entropy", cross_entropy(y_hat.shape, y), y, "test_loss")

\* validation_end / test_end: outputs is a list of mappings, each given by
\* its set of keys; the mean of the stacked entries under key is returned
EpochEnd(outputs, key) ==
    IF \E i \in DOMAIN outputs : key \notin outputs[i] THEN [keys |-> {}, err |-> "KeyError"]
    ELSE IF Len(outputs) = 0 THEN [keys |-> {}, err |-> "stack of empty list"]
    ELSE [keys |-> {key}, err |-> ""]
validation_end(outputs) == EpochEnd(outputs, "val_loss")
test_end(outputs) == EpochEnd(outputs, "test_loss")

\* configure_optimizers: SGD over the parameters of every layer that has some
configure_optimizers(L) ==
    [kind |-> "SGD", lr |-> "0.02", momentum |-> "0.99",
     params |-> {n \in DOMAIN L : \E i \in DOMAIN L[n] :
                     L[n][i].kind \in {"Conv3d", "BatchNorm3d", "ConvTranspose3d"}}]

\* ------------------------------------------------------------------ state
VARIABLES in_channels,   \* self.in_channels
          out_channels,  \* self.out_channels
          layers,        \* the layer attributes of the module, by name
          criterion,     \* self.criterion
          pc,            \* "idle", or "returned" while the last call's result is held
          op,            \* the operation called last
          args,          \* its arguments
          ret            \* what it returned or raised

vars == <<in_channels, out_channels, layers, criterion, pc, op, args, ret>>
attrs == <<in_channels, out_channels, layers, criterion>>

\* ------------------------------------------------------------------ inputs
ForwardSizes == {LowSize} \cup (MinSize..MaxSize)
ForwardInputs ==
    {<<n, c, d, h, w>> : n \in 1..MaxBatch, c \in 1..MaxChannels,
                         d \in ForwardSizes, h \in ForwardSizes, w \in ForwardSizes}
CropSizes == 1..MaxCropSize
CropInputs ==
    {<<n, c, d, h, w>> : n \in 1..MaxBatch, c \in 1..MaxChannels,
                         d \in CropSizes, h \in CropSizes, w \in CropSizes}
\* the decoder tensors given to center_crop directly carry one channel
CropTargets ==
    {<<n, 1, d, h, w>> : n \in 1..MaxBatch, d \in CropSizes, h \in CropSizes, w \in CropSizes}
BlockSizes == MinBlockSize..MaxBlockSize
BlockInputs ==
    {<<n, c, d, h, w>> : n \in 1..MaxBatch, c \in 1..MaxBlockChannels,
                         d \in BlockSizes, h \in BlockSizes, w \in BlockSizes}
BlockChannels == {<<a, b, c>> : a \in 1..MaxBlockChannels, b \in 1..MaxBlockChannels,
                                c \in 1..MaxBlockChannels}
\* targets offered with input x: one of the shape the loss accepts (when
\* forward yields an output at all) and one it rejects
MaskTargets(x) ==
    LET o == forward(layers, x, DefaultTraining)
    IN (IF o.err = "" THEN {o.shape} ELSE {}) \cup {<<x[1] + 1, 1, 1, 1, 1>>}
IndexTargets(x) ==
    LET o == forward(layers, x, DefaultTraining)
    IN (IF o.err = "" THEN {<<o.shape[1], o.shape[3], o.shape[4], o.shape[5]>>} ELSE {})
       \cup {<<x[1] + 1, 1, 1, 1>>}
KeySets == {{"val_loss"}, {"test_loss"}, {"val_loss", "test_loss"}}
OutputLists == UNION {[1..n -> KeySets] : n \in 0..MaxOutputs}

\* ------------------------------------------------------------------ actions
\* UNet(in_channels, out_channels)
Init ==
    /\ in_channels \in 1..MaxChannels
    /\ out_channels \in 1..MaxChannels
    /\ layers = UNetLayers(in_channels, out_channels)
    /\ criterion = "BCEWithLogitsLoss"
    /\ pc = "idle"
    /\ op = "__init__"
    /\ args = <<in_channels, out_channels>>
    /\ ret = <<>>

Returned(o, a, r) ==
    /\ pc' = "returned"
    /\ op' = o
    /\ args' = a
    /\ ret' = r

ForwardCallMut ==
    /\ pc = "idle"
    /\ \E x \in ForwardInputs : Returned("forward", <<x>>, forward(layers, x, DefaultTraining))
    /\ out_channels' = out_channels + 1
    /\ layers' = [layers EXCEPT !["outconv"] = << Conv3d(64, out_channels + 1, 1) >>]
    /\ UNCHANGED <<in_channels, criterion>>
ForwardCall ==
    /\ pc = "idle"
    /\ \E x \in ForwardInputs : Returned("forward", <<x>>, forward(layers, x, DefaultTraining))
    /\ UNCHANGED attrs

CenterCropCall ==
    /\ pc = "idle"
    /\ \E x_encoder \in CropInputs, x \in CropTargets :
          /\ x[1] = x_encoder[1]
          /\ Returned("center_crop", <<x_encoder, x>>, center_crop(x_encoder, x))
    /\ UNCHANGED attrs

TrainingStep ==
    /\ pc = "idle"
    /\ \E x \in ForwardInputs : \E m \in MaskTargets(x) :
          LET batch == [input |-> x, masks |-> m]
          IN Returned("training_step", <<batch>>, training_step(layers, batch, DefaultTraining))
    /\ UNCHANGED attrs

ValidationStep ==
    /\ pc = "idle"
    /\ \E x \in ForwardInputs : \E y \in IndexTargets(x) :
          Returned("validation_step", <<<<x, y>>>>,
                   validation_step(layers, <<x, y>>, DefaultTraining))
    /\ UNCHANGED attrs

TestStep ==
    /\ pc = "idle"
    /\ \E x \in ForwardInputs : \E y \in IndexTargets(x) :
          Returned("test_step", <<<<x, y>>>>, test_step(layers, <<x, y>>, DefaultTraining))
    /\ UNCHANGED attrs

ValidationEnd ==
    /\ pc = "idle"
    /\ \E outputs \in OutputLists : Returned("validation_end", <<outputs>>, validation_end(outputs))
    /\ UNCHANGED attrs

TestEnd ==
    /\ pc = "idle"
    /\ \E outputs \in OutputLists : Returned("test_end", <<outputs>>, test_end(outputs))
    /\ UNCHANGED attrs

ConfigureOptimizers ==
    /\ pc = "idle"
    /\ Returned("configure_optimizers", <<>>, configure_optimizers(layers))
    /\ UNCHANGED attrs

\* create_double_conv(channels), and the new block applied to a tensor
DoubleConvCall ==
    /\ pc = "idle"
    /\ \E channels \in BlockChannels, x \in BlockInputs :
          LET block == create_double_conv(channels)
          IN Returned("create_double_conv", <<channels, x>>,
                      [block |-> block, out |-> ApplyModule(block, x, DefaultTraining)])
    /\ UNCHANGED attrs

\* the caller takes the result; the module is ready for the next call
Return ==
    /\ pc = "returned"
    /\ pc' = "idle"
    /\ op' = "none"
    /\ args' = <<>>
    /\ ret' = <<>>
    /\ UNCHANGED attrs

Next ==
    \/ ForwardCall
    \/ CenterCropCall
    \/ TrainingStep
    \/ ValidationStep
    \/ TestStep
    \/ ValidationEnd
    \/ TestEnd
    \/ ConfigureOptimizers
    \/ DoubleConvCall
    \/ Return

Spec == Init /\ [][Next]_vars

\* ------------------------------------------------------------------ claims
Done(o) == pc = "returned" /\ op = o
Completed(o) == Done(o) /\ ret.err = ""

\* size of x along one axis after statement i of forward when no exception
\* intervenes (a concatenation keeps the size of x), 0 once a layer is given
\* fewer elements than its kernel needs
LayerAxisOut(l, s) ==
    IF l.kind \in {"Conv3d", "MaxPool3d"}
    THEN (IF s < l.k THEN 0 ELSE ConvOut(s, l.k, l.stride))
    ELSE IF l.kind = "ConvTranspose3d" THEN ConvTransposeOut(s, l.k, l.stride)
    ELSE s
RECURSIVE ModuleAxisOut(_, _, _)
ModuleAxisOut(m, i, s) ==
    IF i > Len(m) \/ s <= 0 THEN s ELSE ModuleAxisOut(m, i + 1, LayerAxisOut(m[i], s))
RECURSIVE PathPositive(_, _)
PathPositive(i, s) ==
    IF s <= 0 THEN FALSE
    ELSE IF i > Len(ForwardBody) THEN TRUE
    ELSE IF ForwardBody[i].kind = "cat" THEN PathPositive(i + 1, s)
    ELSE PathPositive(i + 1, ModuleAxisOut(layers[ForwardBody[i].layer], 1, s))

\* C1: in every forward call on an input for which each convolution, pooling
\* and transposed convolution on the path yields a positive size, each skip
\* connection concatenates a cropped encoder tensor whose three spatial sizes
\* equal those of the decoder tensor.
C1_SkipSizesEqual ==
    (Done("forward") /\ \A a \in SpatialAxes : PathPositive(1, args[1][a]))
        => \A i \in DOMAIN ret.trace :
              ret.trace[i].op = "cat" => Spatial(ret.trace[i].crop) = Spatial(ret.trace[i].in)

CropCovers == \A a \in SpatialAxes : args[1][a] >= args[2][a]

\* C2: center_crop(x_encoder, x) with x_encoder at least as large as x on
\* every spatial axis returns a tensor with the spatial sizes of x.
C2_CropHasTargetSize ==
    (Done("center_crop") /\ CropCovers) => Spatial(ret.shape) = Spatial(args[2])

HookKey(o) ==
    CASE o = "training_step" -> "loss"
      [] o = "validation_step" -> "val_loss"
      [] o = "test_step" -> "test_loss"
HookInput(o) == IF o = "training_step" THEN args[1].input ELSE args[1][1]
HookTarget(o) == IF o = "training_step" THEN args[1].masks ELSE args[1][2]
Hooks == {"training_step", "validation_step", "test_step"}

\* C3: a call of training_step, validation_step or test_step runs forward
\* once, on the input part of the batch; when forward yields an output, one
\* built-in loss function is applied to that output and the target part; the
\* mapping returned has the single key "loss", "val_loss", "test_loss".
C3_HookForwardsOnceAndReturnsOneKey ==
    \A o \in Hooks :
       Done(o) =>
          /\ ret.nforward = 1
          /\ ret.fwd.trace # <<>>
          /\ ret.fwd.trace[1].in = HookInput(o)
          /\ ret.fwd.err = "" =>
                /\ ret.loss.ncalls = 1
                /\ ret.loss.fn \in {"BCEWithLogitsLoss", "cross_entropy"}
                /\ ret.loss.input = ret.fwd.shape
                /\ ret.loss.target = HookTarget(o)
          /\ ret.err = "" => ret.keys = {HookKey(o)}
          /\ ret.err # "" => ret.keys = {}
C3_Witness ==
    /\ Completed("validation_step")
    /\ ret.keys = {"val_loss"}
    /\ ret.loss.input[1] = 2

\* the order of UNet.forward: layer applied, and for a concatenation its
\* first and second operand
ExpectedOrder ==
    << <<"encoder_conv1", "", "">>, <<"maxpool", "", "">>,
       <<"encoder_conv2", "", "">>, <<"maxpool", "", "">>,
       <<"encoder_conv3", "", "">>, <<"maxpool", "", "">>,
       <<"encoder_conv4", "", "">>,
       <<"upconv1", "", "">>, <<"cat", "x3", "x">>, <<"decoder_conv1", "", "">>,
       <<"upconv2", "", "">>, <<"cat", "x2", "x">>, <<"decoder_conv2", "", "">>,
       <<"upconv3", "", "">>, <<"cat", "x1", "x">>, <<"decoder_conv3", "", "">>,
       <<"outconv", "", "">> >>

\* C4: forward applies its layers in one fixed order and concatenates the
\* saved encoder outputs deepest first (x3, x2, x1), each once and in front
\* of the decoder tensor; a call that raises has gone through a prefix of
\* that order.
C4_FixedOrder ==
    Done("forward") =>
       /\ Len(ret.trace) <= Len(ExpectedOrder)
       /\ \A i \in DOMAIN ret.trace :
             <<ret.trace[i].op, ret.trace[i].first, ret.trace[i].second>> = ExpectedOrder[i]
       /\ ret.err = "" => Len(ret.trace) = Len(ExpectedOrder)
C4_Witness ==
    /\ Completed("forward")
    /\ Len(ret.trace) = 17
    /\ ret.trace[15].first = "x1"

\* C5: with c = floor((E - D) / 2) on a spatial axis where E >= D, the result
\* of center_crop reads exactly the positions c, c+1, ..., E-c-1 of x_encoder
\* in order (c removed at either end); batch and channel sizes are those of
\* x_encoder.
C5_CropIsCentred ==
    (Done("center_crop") /\ CropCovers) =>
       /\ ret.shape[1] = args[1][1]
       /\ ret.shape[2] = args[1][2]
       /\ \A a \in SpatialAxes :
             LET E == args[1][a]
                 D == args[2][a]
                 c == (E - D) \div 2
             IN /\ ret.shape[a] = E - 2 * c
                /\ ret.src[a - 2] = [i \in 1..(E - 2 * c) |-> c + i - 1]
C5_Witness ==
    /\ Done("center_crop")
    /\ CropCovers
    /\ args[1] = <<2, 2, 4, 3, 2>>
    /\ Spatial(args[2]) = <<1, 1, 2>>
    /\ ret.src = << <<1, 2>>, <<1>>, <<0, 1>> >>

BlockKinds == <<"Conv3d", "BatchNorm3d", "ReLU", "Conv3d", "BatchNorm3d", "ReLU">>
BlockFits == args[2][2] = args[1][1] /\ \A a \in SpatialAxes : args[2][a] >= 5
BlockShape ==
    /\ Len(ret.block) = 6
    /\ \A i \in 1..6 : ret.block[i].kind = BlockKinds[i]
    /\ ret.block[1].cin = args[1][1] /\ ret.block[1].cout = args[1][2]
    /\ ret.block[2].cin = ret.block[1].cout
    /\ ret.block[4].cin = args[1][2] /\ ret.block[4].cout = args[1][3]
    /\ ret.block[5].cin = ret.block[4].cout
BlockOutput ==
    /\ ret.out.err = ""
    /\ ret.out.shape = <<args[2][1], args[1][3], args[2][3] - 4, args[2][4] - 4, args[2][5] - 4>>

\* C6 (as stated): a block of create_double_conv is Conv3d, BatchNorm3d, ReLU,
\* Conv3d, BatchNorm3d, ReLU and maps every input with channels[0] channels
\* and spatial sizes >= 5 to channels[2] channels and sizes s - 4.
C6_Original ==
    (Done("create_double_conv") /\ BlockFits) => (BlockShape /\ BlockOutput)
\* C6 (amended): the same, for inputs that leave the second batch
\* normalisation more than one value per channel, N*(d-4)*(h-4)*(w-4) > 1.
C6_DoubleConvShape ==
    Done("create_double_conv") =>
       /\ BlockShape
       /\ (BlockFits /\ args[2][1] * (args[2][3] - 4) * (args[2][4] - 4) * (args[2][5] - 4) > 1)
             => BlockOutput
C6_Witness ==
    /\ Done("create_double_conv")
    /\ args[1] = <<1, 2, 1>>
    /\ args[2] = <<1, 1, 5, 5, 6>>
    /\ ret.out.shape = <<1, 1, 1, 1, 2>>

\* C7: no call changes in_channels, out_channels, the layers or their
\* declared widths, and whatever calls came before, forward on an input goes
\* through the layers and to the output shape that the module as constructed
\* from in_channels and out_channels gives for that input.
C7_GraphFixed ==
    [][/\ attrs' = attrs
       /\ (pc' = "returned" /\ op' = "forward") =>
             ret' = forward(UNetLayers(in_channels, out_channels), args'[1], DefaultTraining)]_vars
C7_Witness ==
    /\ Completed("training_step")
    /\ layers = UNetLayers(in_channels, out_channels)
    /\ layers["outconv"][1].cout = out_channels

Declares(l) == l.kind \in {"Conv3d", "BatchNorm3d", "ConvTranspose3d"}
SkipWidths(enc) ==
    CASE enc = "x3" -> <<256, 512>>
      [] enc = "x2" -> <<128, 256>>
      [] enc = "x1" -> <<64, 128>>

\* C8: on an input with in_channels channels every layer is given as many
\* channels as it declares (the concatenations give 256+512, 128+256, 64+128),
\* and a returned tensor has the batch size of the input and out_channels
\* channels.
C8_ChannelsConsistent ==
    (Done("forward") /\ args[1][2] = in_channels) =>
       /\ ret.err # "channels"
       /\ \A i \in DOMAIN ret.trace :
             LET e == ret.trace[i]
             IN IF e.op = "cat"
                THEN /\ <<e.crop[2], e.in[2]>> = SkipWidths(e.first)
                     /\ e.out # NoShape => e.out[2] = e.crop[2] + e.in[2]
                     /\ (i + 1) \in DOMAIN ret.trace =>
                           layers[ret.trace[i + 1].op][1].cin = e.crop[2] + e.in[2]
                ELSE Declares(layers[e.op][1]) => e.in[2] = layers[e.op][1].cin
       /\ ret.err = "" => (ret.shape[1] = args[1][1] /\ ret.shape[2] = out_channels)
C8_Witness ==
    /\ Completed("forward")
    /\ args[1][1] = 2
    /\ in_channels = 2
    /\ out_channels = 1
    /\ ret.shape[2] = 1
    /\ ret.trace[12].out[2] = 384

\* C9: a forward call that returns yields, on each spatial axis, the input
\* size minus 88.
C9_OutputIsInputMinus88 ==
    Completed("forward") => \A a \in SpatialAxes : ret.shape[a] = args[1][a] - 88
C9_Witness ==
    /\ Completed("forward")
    /\ Spatial(args[1]) = <<92, 100, 92>>
    /\ Spatial(ret.shape) = <<4, 12, 4>>
====
